---- MODULE Spec2Model ----
(***************************************************************************)
(* The data_relay link of the WARG ground station:                         *)
(*   app/connections/DataRelay.js  init, findUDP, connectTCP, connectUDP   *)
(*   models/TelemetryData          headers, received, current_state, ...   *)
(* One action per entry point or event handler.  Strings are sequences of  *)
(* one-character strings.  Logger calls and the transient addStatus        *)
(* messages write to collaborators that are not read back and are left out.*)
(***************************************************************************)
EXTENDS Integers, Sequences, FiniteSets, Bags, TLC

\* ---------------------------------------------------------------- bounds
MaxPending == 1
MaxAttempts == 2
MaxFrames == 1
MaxListeners == 2
MaxLen == 3

\* ---------------------------------------------------------------- strings
Delim == ","
Space == " "

RECURSIVE split(_)
\* String.prototype.split(","): the tokens between the delimiters, always at
\* least one token.
split(s) ==
  IF \A i \in 1..Len(s) : s[i] # Delim
  THEN <<s>>
  ELSE LET k == CHOOSE i \in 1..Len(s) :
                  s[i] = Delim /\ \A j \in 1..(i - 1) : s[j] # Delim
       IN <<SubSeq(s, 1, k - 1)>> \o split(SubSeq(s, k + 1, Len(s)))

RECURSIVE trimLeft(_)
trimLeft(s) == IF s # <<>> /\ Head(s) = Space THEN trimLeft(Tail(s)) ELSE s

RECURSIVE trimRight(_)
trimRight(s) ==
  IF s # <<>> /\ s[Len(s)] = Space THEN trimRight(SubSeq(s, 1, Len(s) - 1)) ELSE s

\* String.prototype.trim()
trim(s) == trimRight(trimLeft(s))

\* ---------------------------------------------------------------- inbound frames
\* What a 'data' event can carry: null/undefined, a string, or a Buffer.
Frames ==
  { [type |-> "null", text |-> <<>>],
    [type |-> "string", text |-> <<>>],
    [type |-> "string", text |-> <<"a", ",", "b">>],
    [type |-> "buffer", text |-> <<" ", "a">>] }

\* A test that also rejects every chunk that is not a string.
falsyOrNotString(f) == f.type # "string" \/ f.text = <<>>

\* JavaScript truthiness of the chunk: null and "" are falsy, every Buffer
\* (the empty one too) is an object and truthy.
falsy(f) == f.type = "null" \/ (f.type = "string" /\ f.text = <<>>)

\* ---------------------------------------------------------------- state
VARIABLES
  execPending,    \* number of findUDP calls whose exec callback has not run yet
  attempts,       \* the connectUDP closures created so far, a bag of records
  conns,          \* NetworkManager.connections['data_relay'], an array of transports
  headers,        \* TelemetryData.headers
  current_state,  \* TelemetryData.current_state
  state_history,  \* TelemetryData.state_history
  received,       \* TelemetryData.received
  status,         \* StatusManager status codes as last written
  ev,             \* the handler that ran last (for a 'data' event, what it did with
                  \* the frame), or "threw" if an exception escaped it
  fresh,          \* no non-blank frame has been handled since the last init()
  lastLiveness,   \* last of {transport timeout, decoded data frame}
  failure,        \* last failure since the last init(): "udp_timeout", "close",
                  \* "timeout", or "none"
  arg,            \* the argument of the last call or 'data' event: [op, val]
  emitted,        \* the events published by the last handler or call, in order
  listeners,      \* the listeners registered on TelemetryData, per event name
  inputs          \* the texts a direct caller of TelemetryData passes in

vars == <<execPending, attempts, conns, headers, current_state,
          state_history, received, status, ev, fresh, lastLiveness, failure,
          arg, emitted, listeners, inputs>>

telemetry == <<headers, current_state, state_history, received>>
discovery == <<execPending, attempts>>

NoArg == [op |-> "none", val |-> <<>>]

\* The event names listeners register for, and no listener on any of them.
EmitNames == {"aircraft_position", "aircraft_status"}
NoListeners == [n \in EmitNames |-> <<>>]

\* A handler that receives no chunk and publishes no event.
quiet == arg' = NoArg /\ emitted' = <<>> /\ UNCHANGED <<listeners, inputs>>

StatusCodes ==
  {"CONNECTED_DATA_RELAY", "DISCONNECTED_DATA_RELAY", "TIMEOUT_DATA_RELAY", "TIMEOUT_UDP"}

\* StatusManager.setStatusCode(code, value)
setStatusCode(st, code, value) == [st EXCEPT ![code] = IF value THEN "true" ELSE "false"]

\* ---------------------------------------------------------------- TelemetryData
\* A split that leaves the tokens as they are.
setHeadersUntrimmed(headers_string) == split(headers_string)

\* headers_string.split(",").map(trim)
setHeadersFromString(headers_string) ==
  LET toks == split(headers_string)
  IN [i \in 1..Len(toks) |-> trim(toks[i])]

\* getHeaders, clearHeaders and setCurrentStateFromString are called by
\* DataRelay.js; the TelemetryData source at hand does not define them, their
\* effect is taken from the design description.
getHeaders == headers

clearHeaders == <<>>

Min(a, b) == IF a < b THEN a ELSE b

\* A zip in which a repeated header name keeps the value of its first column.
snapshotFirstWins(hs, text) ==
  LET vs == split(text)
      n == Min(Len(hs), Len(vs))
  IN [h \in {hs[i] : i \in 1..n} |->
        vs[CHOOSE i \in 1..n : hs[i] = h /\ \A j \in 1..(i - 1) : hs[j] # h]]

\* mapping[header[i]] = value[i] for every index present on both sides; a
\* repeated header name keeps the value of its last column.
snapshotOf(hs, text) ==
  LET vs == split(text)
      n == Min(Len(hs), Len(vs))
  IN [h \in {hs[i] : i \in 1..n} |->
        vs[CHOOSE i \in 1..n : hs[i] = h /\ \A j \in (i + 1)..n : hs[j] # h]]

\* emitPackets(packets): _.each(packets, function (packet_data, packet_name) {
\* this.emit(packet_name, packet_data) }).  packets is the sequence of
\* [name, payload] entries of the object in iteration order, <<>> for an
\* empty object or a missing argument.  The callback is called without a
\* receiver, so its `this` is not the TelemetryData instance and has no emit:
\* the first entry throws a TypeError before anything is published.
emitPackets(packets) ==
  [events |-> <<>>, threw |-> Len(packets) > 0]

\* ---------------------------------------------------------------- NetworkManager
\* The transports registered under 'data_relay'.  A removed transport is torn
\* down and delivers no further event to its handlers.
getConnectionByName(c) == Len(c) > 0

removeAllConnections(c) == <<>>

addConnection(c) == Append(c, [state |-> "connecting"])

\* ---------------------------------------------------------------- connectTCP
\* connectTCP without the removal of the previous connection.
connectTCPKeepsOld(c) == addConnection(c)

\* The registry after connectTCP: any previous data_relay connection is
\* removed, then the new one is added.
connectTCP(c) ==
  addConnection(IF getConnectionByName(c) THEN removeAllConnections(c) ELSE c)

\* ---------------------------------------------------------------- DataRelay.init
\* The registry after the first statement of init.
initRemove(c) == IF getConnectionByName(c) THEN removeAllConnections(c) ELSE c

\* init() that forgets findUDP in discovery mode.
StartSkipsDiscovery(legacy) ==
  /\ IF legacy
     THEN conns' = connectTCP(initRemove(conns))
     ELSE conns' = initRemove(conns)
  /\ fresh' = TRUE
  /\ failure' = "none"
  /\ ev' = "init"
  /\ quiet
  /\ UNCHANGED <<execPending, attempts, telemetry, status, lastLiveness>>

Start(legacy) ==
  /\ IF legacy
     THEN /\ conns' = connectTCP(initRemove(conns))
          /\ execPending' = execPending
     ELSE /\ execPending < MaxPending
          /\ conns' = initRemove(conns)
          /\ execPending' = execPending + 1
  /\ fresh' = TRUE
  /\ failure' = "none"
  /\ ev' = "init"
  /\ quiet
  /\ UNCHANGED <<attempts, telemetry, status, lastLiveness>>

\* ---------------------------------------------------------------- findUDP
\* A connectUDP closure right after server.bind(): socket created, not yet
\* listening, udp_open = false, no timer.
newAttempt ==
  [sock |-> "bound", udp_open |-> FALSE, timer |-> "none",
   closes |-> 0, replied |-> FALSE, errored |-> FALSE, timeouts |-> 0]

\* Bag bookkeeping: n copies of a, and a replaced by b.
copies(a, n) == IF n = 0 THEN EmptyBag ELSE (a :> n)
replace(bag, a, b) == (bag (-) SetToBag({a})) (+) SetToBag({b})

\* An exec callback that reports a discovery timeout when no match is accepted.
ExecCallbackReportsNone(err, n) ==
  /\ execPending > 0
  /\ execPending' = execPending - 1
  /\ IF err
     THEN /\ n = 0
          /\ ev' = "threw"
          /\ attempts' = attempts
     ELSE /\ BagCardinality(attempts) + n <= MaxAttempts
          /\ ev' = "exec"
          /\ attempts' = attempts (+) copies(newAttempt, n)
  /\ status' = IF ~err /\ n = 0
                THEN setStatusCode(status, "TIMEOUT_UDP", TRUE) ELSE status
  /\ quiet
  /\ UNCHANGED <<conns, telemetry, fresh, lastLiveness, failure>>

\* The exec callback of findUDP.  err: Log is not defined in this module, so
\* Log.error(err) throws a ReferenceError out of the callback.  Otherwise
\* connectUDP runs once for every match that ip.isV4Format accepts; n is the
\* number of accepted matches (0 when stdout has no match or none passes).
\* stdout and the verdict of ip.isV4Format (library code) are inputs.
ExecCallback(err, n) ==
  /\ execPending > 0
  /\ execPending' = execPending - 1
  /\ IF err
     THEN /\ n = 0
          /\ ev' = "threw"
          /\ attempts' = attempts
     ELSE /\ BagCardinality(attempts) + n <= MaxAttempts
          /\ ev' = "exec"
          /\ attempts' = attempts (+) copies(newAttempt, n)
  /\ quiet
  /\ UNCHANGED <<conns, telemetry, status, fresh, lastLiveness, failure>>

\* ---------------------------------------------------------------- connectUDP
\* A 'close' handler that leaves udp_open as it is.
onUdpCloseForgets(a) == a

\* server.on('close'): udp_open = false
onUdpClose(a) == [a EXCEPT !.udp_open = FALSE]

\* server.close() together with the 'close' event it emits before any other
\* event is dispatched.  Closing a socket that is not running throws.
serverClose(a) ==
  IF a.sock = "closed"
  THEN [a EXCEPT !.closes = @ + 1]
  ELSE onUdpClose([a EXCEPT !.sock = "closed", !.closes = @ + 1])

closeThrows(a) == a.sock = "closed"

\* server.on('listening'): udp_open = true, the broadcast is sent, the
\* one-second timer is started.  sendErr: server.send reports an error to its
\* callback, which rethrows it (if (err) throw err); the callback changes
\* nothing else and is taken together with the send.
UdpListening(a, sendErr) ==
  /\ BagIn(a, attempts)
  /\ a.sock = "bound"
  /\ attempts' = replace(attempts, a,
       [a EXCEPT !.sock = "listening", !.udp_open = TRUE, !.timer = "pending"])
  /\ ev' = IF sendErr THEN "threw" ELSE "listening"
  /\ quiet
  /\ UNCHANGED <<execPending, conns, telemetry, status, fresh, lastLiveness, failure>>

\* A 'message' handler that also withdraws the discovery timeout code.
UdpMessageClearsTimeout(a) ==
  /\ BagIn(a, attempts)
  /\ a.sock = "listening"
  /\ conns' = connectTCP(conns)
  /\ attempts' = replace(attempts, a, serverClose([a EXCEPT !.replied = TRUE]))
  /\ status' = setStatusCode(status, "TIMEOUT_UDP", FALSE)
  /\ ev' = IF closeThrows(a) THEN "threw" ELSE "message"
  /\ quiet
  /\ UNCHANGED <<execPending, telemetry, fresh, lastLiveness, failure>>

\* server.on('message'): connectTCP(rinfo.address, msg), then server.close().
\* A datagram is delivered only to a socket that is listening.
UdpMessage(a) ==
  /\ BagIn(a, attempts)
  /\ a.sock = "listening"
  /\ conns' = connectTCP(conns)
  /\ attempts' = replace(attempts, a, serverClose([a EXCEPT !.replied = TRUE]))
  /\ ev' = IF closeThrows(a) THEN "threw" ELSE "message"
  /\ quiet
  /\ UNCHANGED <<execPending, telemetry, status, fresh, lastLiveness, failure>>

\* server.on('error'): server.close().  Raised for a failed bind (socket not
\* yet listening) or a failed receive (socket listening).
UdpError(a) ==
  /\ BagIn(a, attempts)
  /\ a.sock \in {"bound", "listening"}
  /\ attempts' = replace(attempts, a, serverClose([a EXCEPT !.errored = TRUE]))
  /\ ev' = IF closeThrows(a) THEN "threw" ELSE "udp_error"
  /\ quiet
  /\ UNCHANGED <<execPending, conns, telemetry, status, fresh, lastLiveness, failure>>

\* The setTimeout callback: if (udp_open) { TIMEOUT_UDP = true; server.close() }
timerBody(a) ==
  IF a.udp_open THEN serverClose([a EXCEPT !.timeouts = @ + 1]) ELSE a

UdpTimer(a) ==
  /\ BagIn(a, attempts)
  /\ a.timer = "pending"
  /\ attempts' = replace(attempts, a, [timerBody(a) EXCEPT !.timer = "fired"])
  /\ status' = IF a.udp_open THEN setStatusCode(status, "TIMEOUT_UDP", TRUE) ELSE status
  /\ failure' = IF a.udp_open THEN "udp_timeout" ELSE failure
  /\ ev' = IF a.udp_open /\ closeThrows(a) THEN "threw" ELSE "udp_timer"
  /\ quiet
  /\ UNCHANGED <<execPending, conns, telemetry, fresh, lastLiveness>>

\* ---------------------------------------------------------------- connectTCP handlers
\* A 'connect' handler that does not clear the Header List.
onConnectHeadersKept == headers

\* data_relay.on('connect'): the Header List after TelemetryData.clearHeaders()
onConnectHeaders == clearHeaders

\* A 'connect' handler that also empties the history.
TcpConnectResetsHistory(t) ==
  /\ t \in 1..Len(conns)
  /\ conns[t].state = "connecting"
  /\ conns' = [conns EXCEPT ![t].state = "open"]
  /\ headers' = onConnectHeaders
  /\ status' = setStatusCode(status, "CONNECTED_DATA_RELAY", TRUE)
  /\ ev' = "connect"
  /\ quiet
  /\ received' = <<>>
  /\ state_history' = <<>>
  /\ UNCHANGED <<discovery, current_state, fresh, lastLiveness, failure>>

TcpConnect(t) ==
  /\ t \in 1..Len(conns)
  /\ conns[t].state = "connecting"
  /\ conns' = [conns EXCEPT ![t].state = "open"]
  /\ headers' = onConnectHeaders
  /\ status' = setStatusCode(status, "CONNECTED_DATA_RELAY", TRUE)
  /\ ev' = "connect"
  /\ quiet
  /\ UNCHANGED <<discovery, current_state, state_history, received, fresh,
                 lastLiveness, failure>>

\* A 'close' handler that reconnects on its own.
TcpCloseReconnects(t) ==
  /\ t \in 1..Len(conns)
  /\ conns[t].state \in {"connecting", "open"}
  /\ conns' = connectTCP([conns EXCEPT ![t].state = "closed"])
  /\ status' = setStatusCode(status, "DISCONNECTED_DATA_RELAY", TRUE)
  /\ failure' = "close"
  /\ ev' = "close"
  /\ quiet
  /\ UNCHANGED <<discovery, telemetry, fresh, lastLiveness>>

\* data_relay.on('close'): the transport is closed by the peer, by an error
\* or by a failed connect; the handler only raises the status.
TcpClose(t) ==
  /\ t \in 1..Len(conns)
  /\ conns[t].state \in {"connecting", "open"}
  /\ conns' = [conns EXCEPT ![t].state = "closed"]
  /\ status' = setStatusCode(status, "DISCONNECTED_DATA_RELAY", TRUE)
  /\ failure' = "close"
  /\ ev' = "close"
  /\ quiet
  /\ UNCHANGED <<discovery, telemetry, fresh, lastLiveness>>

\* A 'timeout' handler that discards the frames received so far.
TcpTimeoutDropsHistory(t) ==
  /\ t \in 1..Len(conns)
  /\ conns[t].state \in {"connecting", "open"}
  /\ status' = setStatusCode(status, "TIMEOUT_DATA_RELAY", TRUE)
  /\ lastLiveness' = "timeout"
  /\ failure' = "timeout"
  /\ ev' = "timeout"
  /\ quiet
  /\ received' = <<>>
  /\ state_history' = <<>>
  /\ UNCHANGED <<discovery, conns, headers, current_state, fresh>>

\* data_relay.on('timeout'): the idle timer of the socket; the socket stays
\* as it is.
TcpTimeout(t) ==
  /\ t \in 1..Len(conns)
  /\ conns[t].state \in {"connecting", "open"}
  /\ status' = setStatusCode(status, "TIMEOUT_DATA_RELAY", TRUE)
  /\ lastLiveness' = "timeout"
  /\ failure' = "timeout"
  /\ ev' = "timeout"
  /\ quiet
  /\ UNCHANGED <<discovery, conns, telemetry, fresh>>

\* The header test inverted.
dispatchSwapped(f, hs) ==
  IF falsy(f) THEN "blank"
  ELSE IF Len(hs) # 0 THEN "header" ELSE "data"

\* Every non-blank frame taken as a header frame.
dispatchAlwaysHeader(f, hs) == IF falsy(f) THEN "blank" ELSE "header"

\* What the 'data' handler does with a chunk, given the Header List.
dispatch(f, hs) ==
  IF falsy(f) THEN "blank"
  ELSE IF Len(hs) = 0 THEN "header" ELSE "data"

\* parseData without the status write.
parseDataStatusKept(st) == st

\* parseData, last statement: setStatusCode('TIMEOUT_DATA_RELAY', false)
parseDataStatus(st) == setStatusCode(st, "TIMEOUT_DATA_RELAY", FALSE)

\* data_relay.on('data')
TcpData(t, f) ==
  /\ t \in 1..Len(conns)
  /\ conns[t].state = "open"
  /\ arg' = [op |-> "data", val |-> f]
  /\ UNCHANGED <<listeners, inputs>>
  /\ LET kind == dispatch(f, getHeaders)
     IN /\ ev' = kind
        /\ CASE kind = "blank" ->
                  /\ emitted' = <<>>
                  /\ UNCHANGED <<telemetry, status, fresh, lastLiveness>>
             [] kind = "header" ->
                  \* parseHeaders
                  /\ headers' = setHeadersFromString(f.text)
                  /\ fresh' = FALSE
                  /\ emitted' = <<>>
                  /\ UNCHANGED <<current_state, state_history, received, status,
                                 lastLiveness>>
             [] kind = "data" ->
                  \* parseData: setCurrentStateFromString, emitPackets(),
                  \* TIMEOUT_DATA_RELAY = false
                  /\ Len(state_history) < MaxFrames
                  /\ current_state' = snapshotOf(headers, f.text)
                  /\ state_history' = Append(state_history, snapshotOf(headers, f.text))
                  /\ received' = Append(received, f.text)
                  /\ status' = parseDataStatus(status)
                  /\ lastLiveness' = "data"
                  /\ fresh' = FALSE
                  /\ headers' = headers
                  /\ emitted' = emitPackets(<<>>).events
  /\ UNCHANGED <<discovery, conns, failure>>

\* The state after the modules are loaded, before any call.
Constructed ==
  /\ execPending = 0
  /\ attempts = EmptyBag
  /\ conns = <<>>
  /\ headers = <<>>
  /\ current_state = <<>>
  /\ state_history = <<>>
  /\ received = <<>>
  /\ status = [c \in StatusCodes |-> "unset"]
  /\ ev = "none"
  /\ fresh = TRUE
  /\ lastLiveness = "none"
  /\ failure = "none"
  /\ arg = NoArg
  /\ emitted = <<>>
  /\ listeners = NoListeners

Init == Constructed /\ inputs = <<>>

Next ==
  \/ \E legacy \in BOOLEAN : Start(legacy)
  \/ \E err \in BOOLEAN, n \in 0..MaxAttempts : ExecCallback(err, n)
  \/ \E a \in BagToSet(attempts), sendErr \in BOOLEAN : UdpListening(a, sendErr)
  \/ \E a \in BagToSet(attempts) : UdpMessage(a)
  \/ \E a \in BagToSet(attempts) : UdpError(a)
  \/ \E a \in BagToSet(attempts) : UdpTimer(a)
  \/ \E t \in 1..Len(conns) : TcpConnect(t)
  \/ \E t \in 1..Len(conns) : TcpClose(t)
  \/ \E t \in 1..Len(conns) : TcpTimeout(t)
  \/ \E t \in 1..Len(conns), f \in Frames : TcpData(t, f)

Spec == Init /\ [][Next]_vars

\* The event loop runs every due timer and every completed exec callback, and
\* a bound socket reports 'listening'.  init() calls, datagrams and transport
\* events come from outside and are not forced.
FairSpec ==
  /\ Spec
  /\ WF_vars(\E a \in BagToSet(attempts) : UdpTimer(a))
  /\ WF_vars(\E err \in BOOLEAN, n \in 0..MaxAttempts : ExecCallback(err, n))
  /\ WF_vars(\E a \in BagToSet(attempts), sendErr \in BOOLEAN : UdpListening(a, sendErr))

\* ---------------------------------------------------------------- lifecycle
Attempts == BagToSet(attempts)
Live == {t \in 1..Len(conns) : conns[t].state \in {"connecting", "open"}}

Discovering == execPending > 0 \/ \E a \in Attempts : a.sock # "closed"
Connecting == \E t \in 1..Len(conns) : conns[t].state = "connecting"
Connected == \E t \in 1..Len(conns) : conns[t].state = "open"

\* ---------------------------------------------------------------- properties

\* C1: a non-blank frame is handled as a header frame exactly when the Header
\* List is empty when it arrives, otherwise as a data frame; no data row is
\* ever decoded while the Header List is empty.
C1_FrameDispatch ==
  [][ /\ (ev' = "header" => headers = <<>>)
      /\ (ev' = "data" => headers # <<>> /\ headers' = headers)
      /\ (Len(state_history') > Len(state_history) => ev' = "data" /\ headers # <<>>)
    ]_vars

C1_Witness ==
  /\ ev = "data"
  /\ headers = <<<<"a">>, <<"b">>>>
  /\ Len(state_history) = 1

\* C2: at most one transport is registered under 'data_relay', hence at most
\* one live transport, whatever init() calls and discovery replies happened.
C2_OneTransport == Len(conns) <= 1 /\ Cardinality(Live) <= 1

\* A discovery reply opened a new transport after an earlier one had connected.
C2_Witness ==
  /\ ev = "message"
  /\ status["CONNECTED_DATA_RELAY"] = "true"
  /\ Len(conns) = 1
  /\ conns[1].state = "connecting"

\* C3 (as claimed): when a reply commits, every other discovery attempt is
\* cancelled: after the step in which a reply is handled, each attempt that
\* did not itself get a reply has its socket closed and no timer pending.
C3_OthersCancelledOnReply ==
  [][ ev' = "message" =>
        \A b \in BagToSet(attempts') :
          b.replied \/ (b.sock = "closed" /\ b.timer # "pending") ]_vars

\* C4 (as claimed): whenever the timer of an attempt has fired and no reply
\* had arrived, TIMEOUT_UDP was set exactly once by that attempt.
C4_TimeoutWheneverNoReply ==
  \A a \in Attempts : (a.timer = "fired" /\ ~a.replied) => a.timeouts = 1

\* C4 (amended): every discovery socket is closed at most once and is closed
\* once its timer has fired; the timer sets TIMEOUT_UDP exactly once when it
\* finds the socket still open (no reply, no socket error before it) and not
\* at all when a reply or a socket error closed the socket first.
C4_CloseOnce ==
  /\ \A a \in Attempts :
       /\ a.closes <= 1
       /\ (a.sock = "closed" <=> a.closes = 1)
       /\ (a.timer = "fired" => a.sock = "closed")
       /\ ((a.timer = "fired" /\ ~a.replied /\ ~a.errored) => a.timeouts = 1)
       /\ ((a.replied \/ a.errored) => a.timeouts = 0)
       /\ a.timeouts <= 1
  /\ (status["TIMEOUT_UDP"] = "true" <=> \E a \in Attempts : a.timeouts = 1)
  /\ ev # "threw" \/ \A a \in Attempts : a.closes <= 1

\* A socket error closed the socket, then the timer fired: closed once, no
\* TIMEOUT_UDP from this attempt.
C4_Witness ==
  \E a \in Attempts :
    a.errored /\ a.timer = "fired" /\ a.closes = 1 /\ a.timeouts = 0

\* C5 (as claimed): once a transport 'close' event has been handled,
\* DISCONNECTED_DATA_RELAY is true and no data frame is decoded before the
\* next init().
C5_NoDataAfterClose ==
  [][ /\ (ev' = "close" => status'["DISCONNECTED_DATA_RELAY"] = "true")
      /\ (failure = "close" => ev' # "data") ]_vars

\* C6: the first non-blank frame handled after any init() finds the Header
\* List empty and is handled as a header frame; no data frame is decoded
\* against headers that were set before that init().
C6_HeadersNotCarriedOver ==
  [][ (fresh /\ ev' \in {"header", "data"}) => (ev' = "header" /\ headers = <<>>) ]_vars

\* Legacy mode only (no discovery attempt ever made): a data frame was decoded
\* in an earlier epoch and, after a new init(), a frame set different headers.
C6_Witness ==
  /\ attempts = EmptyBag
  /\ ev = "header"
  /\ Len(state_history) = 1
  /\ DOMAIN current_state # {headers[i] : i \in 1..Len(headers)}

\* C7: 'connect' empties the Header List and raises CONNECTED_DATA_RELAY; the
\* first non-blank frame after it sets a non-empty Header List, and no frame
\* changes a Header List that is set.
C7_HeadersSetOnce ==
  [][ /\ (ev' = "connect" => headers' = <<>> /\ status'["CONNECTED_DATA_RELAY"] = "true")
      /\ (ev' \in {"blank", "header", "data"} =>
            IF headers = <<>>
            THEN (ev' = "blank" /\ headers' = <<>>) \/ (ev' = "header" /\ headers' # <<>>)
            ELSE headers' = headers)
    ]_vars

C7_Witness ==
  /\ ev = "data"
  /\ status["CONNECTED_DATA_RELAY"] = "true"
  /\ headers = <<<<"a">>>>
  /\ DOMAIN current_state = {<<"a">>}

\* C8 (as claimed): after a discovery timeout or a transport close, no
\* broadcast is sent and no transport is opened until init() is called.
C8_NothingAfterFailure ==
  [][ (failure \in {"udp_timeout", "close"}) => (ev' \notin {"listening", "message"}) ]_vars

NewTransport ==
  /\ conns' # conns
  /\ \E t \in 1..Len(conns') :
       conns'[t].state = "connecting" /\ (t > Len(conns) \/ conns[t].state # "connecting")

\* C8 (amended): no timer, close or timeout handler starts anything.  The
\* discovery timer and the transport close and timeout handlers create no
\* discovery attempt, send no broadcast and open no transport; interface
\* inspection is started only by init(), attempts are created only by its
\* callback, a broadcast is sent only by the 'listening' handler of such an
\* attempt, and a transport is opened only by init() or by a reply to one.
C8_OnlyStartBeginsDiscovery ==
  [][ /\ (execPending' > execPending => ev' = "init")
      /\ (BagCardinality(attempts') # BagCardinality(attempts) =>
            ev' = "exec" /\ BagCardinality(attempts') > BagCardinality(attempts))
      /\ ((\E a \in BagToSet(attempts') : a.sock = "listening" /\ ~BagIn(a, attempts))
            => ev' \in {"listening", "threw"})
      /\ (NewTransport => ev' \in {"init", "message"})
      /\ (ev' \in {"udp_timer", "close", "timeout"} =>
            /\ execPending' = execPending
            /\ Len(conns') = Len(conns)
            /\ ~NewTransport
            /\ \A a \in BagToSet(attempts') : a.sock = "closed" \/ BagIn(a, attempts))
    ]_vars

\* A sibling attempt's reply opened a transport after a discovery timeout,
\* with no init() in between.
C8_Witness ==
  /\ failure = "udp_timeout"
  /\ ev = "message"
  /\ Len(conns) = 1

C10_TimeoutFollowsLiveness ==
  [][ /\ status'["TIMEOUT_DATA_RELAY"] =
           (CASE lastLiveness' = "timeout" -> "true"
              [] lastLiveness' = "data" -> "false"
              [] OTHER -> "unset")
      /\ (ev' = "timeout" => conns' = conns /\ lastLiveness' = "timeout")
      /\ (ev' = "data" => lastLiveness' = "data")
    ]_vars

\* A timeout after a decoded data frame, the transport still open.
C10_Witness ==
  /\ ev = "timeout"
  /\ Len(state_history) = 1
  /\ status["TIMEOUT_DATA_RELAY"] = "true"
  /\ Len(conns) = 1
  /\ conns[1].state = "open"

\* ---------------------------------------------------------------- C11
\* A chunk that is null/undefined or the empty string.
IsBlank(f) == f.type = "null" \/ (f.type = "string" /\ f.text = <<>>)

\* C11 as stated: a blank or non-string inbound frame is discarded and changes
\* nothing: the Header List, current_state, state_history, received and the
\* status codes are the same after the 'data' event as before it.
C11_BlankOrNonStringDiscarded ==
  [][ (arg'.op = "data" /\ (IsBlank(arg'.val) \/ arg'.val.type # "string")) =>
        (ev' = "blank" /\ UNCHANGED <<telemetry, status>>) ]_vars

\* C11 amended: a blank chunk (null, undefined, the empty string) is discarded
\* and changes nothing, whichever state it arrives in; a chunk that is not a
\* string but is truthy (a Buffer) is converted with toString() and decoded
\* like a string: it sets the Header List when that is empty and is appended
\* to the history otherwise.
C11_BlankDiscardedBufferDecoded ==
  [][ arg'.op = "data" =>
        /\ (IsBlank(arg'.val) => (ev' = "blank" /\ UNCHANGED <<telemetry, status>>))
        /\ (~IsBlank(arg'.val) =>
              /\ ev' \in {"header", "data"}
              /\ (ev' = "header" => headers' # <<>> /\ headers' # headers)
              /\ (ev' = "data" => received' = Append(received, arg'.val.text)))
    ]_vars

\* An empty string arrives after the headers and a data frame and is dropped.
C11_Witness ==
  /\ arg.op = "data"
  /\ arg.val.type = "string"
  /\ arg.val.text = <<>>
  /\ ev = "blank"
  /\ headers # <<>>
  /\ state_history # <<>>

\* ---------------------------------------------------------------- C12
\* The event names DataRelay announces for every decoded frame.
PacketCategories ==
  {"aircraft_position", "aircraft_orientation", "aircraft_gains",
   "aircraft_status", "aircraft_channels"}

\* C12: every data frame processed publishes exactly one event for each
\* Packet Category, after current_state has been updated, each carrying a
\* slice of the new current_state.
C12_OneEventPerCategory ==
  [][ ev' = "data" =>
        /\ Len(emitted') = Cardinality(PacketCategories)
        /\ \A c \in PacketCategories :
             \E i \in 1..Len(emitted') :
               /\ emitted'[i].name = c
               /\ DOMAIN emitted'[i].payload \subseteq DOMAIN current_state'
               /\ \A k \in DOMAIN emitted'[i].payload :
                    emitted'[i].payload[k] = current_state'[k]
    ]_vars

\* ---------------------------------------------------------------- TelemetryData as an event emitter
\* What a caller hands to emitPackets: the entries of an object in iteration
\* order, each name at most once.
Payloads == {"p", "q"}
Packets ==
  { p \in UNION { [1..n -> [name : EmitNames, payload : Payloads]] :
                    n \in 0..Cardinality(EmitNames) } :
      \A i, j \in 1..Len(p) : p[i].name = p[j].name => i = j }

\* TelemetryData.on(name, listener), inherited from EventEmitter: the listener
\* is added after the ones already registered for that name.  A listener
\* either returns or throws when it is called.
On(name, l) ==
  /\ Len(listeners[name]) < MaxListeners
  /\ listeners' = [listeners EXCEPT ![name] = Append(@, l)]
  /\ arg' = [op |-> "on", val |-> <<name, l>>]
  /\ ev' = "on"
  /\ emitted' = <<>>
  /\ UNCHANGED <<discovery, conns, telemetry, status, fresh, lastLiveness,
                 failure, inputs>>

\* TelemetryData.emitPackets(packets) called directly.
EmitPackets(packets) ==
  /\ arg' = [op |-> "emitPackets", val |-> packets]
  /\ emitted' = emitPackets(packets).events
  /\ ev' = IF emitPackets(packets).threw THEN "threw" ELSE "emitPackets"
  /\ UNCHANGED <<discovery, conns, telemetry, status, fresh, lastLiveness,
                 failure, listeners, inputs>>

EmitNext ==
  \/ \E name \in EmitNames, l \in {"returns", "throws"} : On(name, l)
  \/ \E packets \in Packets : EmitPackets(packets)

EmitSpec == Init /\ [][EmitNext]_vars

\* ---------------------------------------------------------------- C13
\* The events a call of emitPackets is to publish: one per entry, in order,
\* each reaching the listeners registered for its name at the call.
Published(packets, ls) ==
  [i \in 1..Len(packets) |->
     [name |-> packets[i].name, payload |-> packets[i].payload,
      to |-> Len(ls[packets[i].name])]]

\* C13: emitPackets(packets) publishes, for each category name in packets in
\* iteration order, one event that delivers the payload unchanged to every
\* listener registered for that name at the call, and to no other listener.
C13_DeliveredToRegistered ==
  arg.op = "emitPackets" =>
    (ev = "emitPackets" /\ emitted = Published(arg.val, listeners))

\* ---------------------------------------------------------------- C14
\* C14: when a listener of a category in packets throws, the other listeners
\* of that category and the listeners of the later categories of the same
\* emitPackets call still receive their payloads.
C14_ThrowingListenerIsolated ==
  (/\ arg.op = "emitPackets"
   /\ \E i \in 1..Len(arg.val) :
        \E k \in 1..Len(listeners[arg.val[i].name]) :
          listeners[arg.val[i].name][k] = "throws") =>
    \A i \in 1..Len(arg.val) :
      \E e \in 1..Len(emitted) :
        /\ emitted[e].name = arg.val[i].name
        /\ emitted[e].payload = arg.val[i].payload
        /\ emitted[e].to = Len(listeners[arg.val[i].name])

\* ---------------------------------------------------------------- C15
\* C15: no fault in the link layer (a failed interface-inspection command, a
\* discovery send error, a discovery socket error, a discovery timeout, a
\* transport timeout or close, a blank frame) ends in an error thrown out of
\* the handler that met it.
C15_NoFaultThrows == ev # "threw"

\* ---------------------------------------------------------------- TelemetryData as a decoder
\* The texts of up to MaxLen characters over a letter, the delimiter and a
\* blank.
Chars == {"a", Delim, Space}
Strings == UNION { [1..n -> Chars] : n \in 0..MaxLen }

\* A caller holds two texts, a header line and a data line.
ParseInit == Constructed /\ inputs \in [h : Strings, v : Strings]

\* TelemetryData.setHeadersFromString(text) called directly, on an empty
\* Header List or on one set by an earlier call.
SetHeaders(text) ==
  /\ headers' = setHeadersFromString(text)
  /\ arg' = [op |-> "setHeadersFromString", val |-> text]
  /\ ev' = "setHeadersFromString"
  /\ emitted' = <<>>
  /\ UNCHANGED <<discovery, conns, current_state, state_history, received,
                 status, fresh, lastLiveness, failure, listeners, inputs>>

\* TelemetryData.setCurrentStateFromString(text) called directly, once.
SetCurrentState(text) ==
  /\ state_history = <<>>
  /\ current_state' = snapshotOf(headers, text)
  /\ state_history' = Append(state_history, current_state')
  /\ received' = Append(received, text)
  /\ arg' = [op |-> "setCurrentStateFromString", val |-> text]
  /\ ev' = "setCurrentStateFromString"
  /\ emitted' = <<>>
  /\ UNCHANGED <<discovery, conns, headers, status, fresh, lastLiveness,
                 failure, listeners, inputs>>

ParseNext ==
  \/ \E text \in {inputs.h, inputs.v} : SetHeaders(text)
  \/ SetCurrentState(inputs.v)

ParseSpec == ParseInit /\ [][ParseNext]_vars

\* The tokens of a text, read off the positions of its delimiters: token k
\* lies between delimiter k-1 and delimiter k.
Commas(s) == {i \in 1..Len(s) : s[i] = ","}

nTokens(s) == Cardinality(Commas(s)) + 1

cut(s, k) ==
  IF k = 0 THEN 0
  ELSE IF k = nTokens(s) THEN Len(s) + 1
  ELSE CHOOSE i \in Commas(s) : Cardinality({j \in Commas(s) : j < i}) = k - 1

tokenAt(s, k) == SubSeq(s, cut(s, k - 1) + 1, cut(s, k) - 1)

\* h is tok without its leading and trailing blanks.
isTrimOf(h, tok) ==
  /\ h = <<>> \/ (h[1] # " " /\ h[Len(h)] # " ")
  /\ \E i \in 0..Len(tok) :
       /\ i + Len(h) <= Len(tok)
       /\ SubSeq(tok, i + 1, i + Len(h)) = h
       /\ \A k \in (1..i) \cup ((i + Len(h) + 1)..Len(tok)) : tok[k] = " "

\* ---------------------------------------------------------------- C16
\* The number of columns present on both sides of a decode.
Both(hs, text) == Min(Len(hs), nTokens(text))

\* C16 as stated: setCurrentStateFromString(text) gives a snapshot whose keys
\* are exactly H[i] for the indices i present on both sides, with
\* snapshot[H[i]] = V[i] for every such index, and raises no error.
C16_EveryColumnPaired ==
  arg.op = "setCurrentStateFromString" =>
    /\ ev = "setCurrentStateFromString"
    /\ DOMAIN current_state = {headers[i] : i \in 1..Both(headers, arg.val)}
    /\ \A i \in 1..Both(headers, arg.val) :
         current_state[headers[i]] = tokenAt(arg.val, i)

\* C16 amended: the keys are exactly H[i] for the indices present on both
\* sides; snapshot[H[i]] = V[i] for every such index whose name does not recur
\* at a later such index (a repeated name keeps its last value); entries of
\* the longer side are dropped and no error is raised.
C16_LastColumnPaired ==
  arg.op = "setCurrentStateFromString" =>
    /\ ev = "setCurrentStateFromString"
    /\ DOMAIN current_state = {headers[i] : i \in 1..Both(headers, arg.val)}
    /\ \A i \in 1..Both(headers, arg.val) :
         (\A j \in (i + 1)..Both(headers, arg.val) : headers[j] # headers[i])
           => current_state[headers[i]] = tokenAt(arg.val, i)

\* A decode against a Header List with a repeated name whose two columns
\* carry different values.
C16_Witness ==
  /\ arg.op = "setCurrentStateFromString"
  /\ Both(headers, arg.val) = 2
  /\ headers[1] = headers[2]
  /\ tokenAt(arg.val, 1) # tokenAt(arg.val, 2)
  /\ current_state[headers[2]] = tokenAt(arg.val, 2)

C18_HistoryResetOnReconnect ==
  [][ ev' \in {"init", "connect"} =>
        (received' = <<>> /\ state_history' = <<>>) ]_vars

\* C18 amended: only the Header List is scoped to a link epoch.  start()
\* changes none of the telemetry fields, and the connect of a transport
\* clears the Header List and nothing else: received, state_history and
\* current_state keep the entries of the earlier epochs.
C18_OnlyHeadersResetOnReconnect ==
  [][ /\ (ev' = "init" => UNCHANGED telemetry)
      /\ (ev' = "connect" =>
            /\ headers' = <<>>
            /\ UNCHANGED <<current_state, state_history, received>>)
    ]_vars

\* A new transport has connected and the history still holds a frame of the
\* epoch before it.
C18_Witness ==
  /\ ev = "connect"
  /\ headers = <<>>
  /\ Len(state_history) = 1
  /\ Len(received) = 1
  /\ Len(conns) = 1
  /\ conns[1].state = "open"

\* ---------------------------------------------------------------- C19
\* C19: setHeadersFromString(text) replaces the Header List by the
\* comma-separated tokens of text, each without its surrounding blanks, in
\* their order and number (repeated names kept); the list is never empty.
C19_TrimmedTokens ==
  arg.op = "setHeadersFromString" =>
    /\ ev = "setHeadersFromString"
    /\ headers # <<>>
    /\ Len(headers) = nTokens(arg.val)
    /\ \A k \in 1..Len(headers) : isTrimOf(headers[k], tokenAt(arg.val, k))

\* A text with two different tokens that become the same name once the blanks
\* are trimmed: both are kept.
C19_Witness ==
  /\ arg.op = "setHeadersFromString"
  /\ Len(headers) = 2
  /\ headers[1] = headers[2]
  /\ tokenAt(arg.val, 1) # tokenAt(arg.val, 2)

\* ---------------------------------------------------------------- C20
\* The codes the Link Manager raises and never withdraws.
RaisedOnly == {"CONNECTED_DATA_RELAY", "DISCONNECTED_DATA_RELAY", "TIMEOUT_UDP"}

\* C20: CONNECTED_DATA_RELAY, DISCONNECTED_DATA_RELAY and TIMEOUT_UDP are only
\* ever written true: once written they stay true through every later start(),
\* discovery, connect and close, and TIMEOUT_DATA_RELAY is the only code that
\* is ever written false.
C20_OnlyTimeoutDataRelayCleared ==
  [][ /\ \A c \in RaisedOnly :
           /\ status'[c] # "false"
           /\ (status[c] = "true" => status'[c] = "true")
      /\ \A c \in StatusCodes :
           (status'[c] = "false" /\ status[c] # "false") =>
             (c = "TIMEOUT_DATA_RELAY" /\ ev' = "data")
    ]_vars

\* After a discovery timeout, a close, a start() and a reconnect, with a data
\* frame having withdrawn TIMEOUT_DATA_RELAY: the three other codes all read
\* true while the transport is open.
C20_Witness ==
  /\ \A c \in RaisedOnly : status[c] = "true"
  /\ status["TIMEOUT_DATA_RELAY"] = "false"
  /\ Len(conns) = 1
  /\ conns[1].state = "open"
  /\ failure = "none"

\* ---------------------------------------------------------------- C21
\* The exec callback has just run without error and without an accepted
\* match: every attempt it creates starts as newAttempt, and none is there.
NoCandidate == ev = "exec" /\ ~BagIn(newAttempt, attempts)

\* Nothing of any start() is in flight: no inspection pending, no discovery
\* socket bound or listening, no transport connecting or open.
Quiescent ==
  /\ execPending = 0
  /\ \A a \in Attempts : a.sock = "closed"
  /\ Live = {}

\* C21 as stated: in discovery mode, once interface inspection has yielded no
\* accepted broadcast candidate, the system is without a connection and stays
\* without a connection and without any new status signal until start() is
\* called again.
C21_NothingUntilNextStart ==
  [][ (NoCandidate /\ Live = {} /\ ev' # "init") =>
        (conns' = conns /\ status' = status) ]_vars

\* C21 amended: a discovery-mode start() removes the existing connection and
\* raises no status; its callback, when no candidate is accepted, opens no
\* discovery socket, starts no timer, raises no status and creates no
\* transport.  The system then stays without a connection and without a new
\* status signal until the next start() provided nothing of an earlier
\* start() is still in flight.
C21_NoCandidateDoesNothing ==
  [][ /\ ((ev' = "init" /\ execPending' > execPending) =>
            (conns' = <<>> /\ status' = status /\ attempts' = attempts))
      /\ ((ev' = "exec" /\ attempts' = attempts) =>
            (conns' = conns /\ status' = status /\ UNCHANGED telemetry))
      /\ ((Quiescent /\ ev' # "init") =>
            (conns' = conns /\ status' = status /\ Quiescent'))
    ]_vars

\* A transport had connected; a discovery-mode start() removed it and its
\* inspection accepted no candidate: no connection, no attempt, nothing
\* pending.
C21_Witness ==
  /\ NoCandidate
  /\ status["CONNECTED_DATA_RELAY"] = "true"
  /\ conns = <<>>
  /\ attempts = EmptyBag
  /\ execPending = 0
====
